---- MODULE Spec2Model ----
(***************************************************************************)
(* Model of the orderedmap repository (emretanriverdi/orderedmap).         *)
(*                                                                         *)
(* The linked-list container of src/orderedmap.go is modelled on an        *)
(* explicit heap: `nodes` maps every allocated node to its four fields,    *)
(* `om` holds the fields of the orderedMap struct.  Every method is a pure *)
(* operator from a store [om, nodes] to the store it leaves, and one       *)
(* action applies it.  The two slice-backed variants (src/unnamed/part_001 *)
(* and part_002) are the records sm1 and sm2.  JSON text is modelled as a  *)
(* sequence of lexemes.                                                    *)
(***************************************************************************)
EXTENDS Integers, Sequences, FiniteSets, TLC

VARIABLES om, nodes, last, hist, sm1, sm2, other

vars == <<om, nodes, last, hist, sm1, sm2, other>>

(***************************************************************************)
(* Bounds of the model.                                                    *)
(***************************************************************************)
\* the number of Set calls recorded by the Set-only specification
MaxHist == 4

\* The keys and (int) values the operations draw their arguments from.
KeySeq == <<"a", "b", "c">>
KeySet == {KeySeq[i] : i \in 1..Len(KeySeq)}
ValSet == {1, 2}

\* The heap has a node for every key: a container never links more nodes than
\* it has keys, and a node that leaves the container is in the pool.
MaxNodes == Len(KeySeq)

\* the nil pointer
Nil == 0
Node == 1..MaxNodes

\* One outcome of sync.Pool's choices for a whole call: the pool hands out the
\* first node of the order that it can hand out.
Orders == {o \in [1..MaxNodes -> Node] : \A i, j \in 1..MaxNodes : o[i] = o[j] => i = j}

\* the order that hands out node n first, for a call that takes one node
First(n) == CHOOSE o \in Orders : o[1] = n

Range(f) == {f[x] : x \in DOMAIN f}

(***************************************************************************)
(* The type parameter V and its zero value.  "int" is V = int; the other   *)
(* instantiations are used by the nested-container model further down.     *)
(***************************************************************************)
NilPtr == [nil |-> TRUE, kv |-> <<>>]

Zero(t) == IF t = "int" THEN 0 ELSE IF t = "any" THEN <<>> ELSE NilPtr

\* new(node[K, V]): the zero node
ZeroNode(t) == [key |-> "", value |-> Zero(t), prev |-> Nil, next |-> Nil]

\* isKeyString(zero): K is string in every instantiation modelled here
isKeyString(kt) == kt = "string"

\* NewWithCapacity: an empty index, a pool with nothing in it, the cached key test
\* The field vt is not a field of the struct: it is the type parameter V of the
\* instantiation, which decides V's zero value and how a value is decoded.
NewWithCapacity(kt, t) ==
    [head |-> Nil, tail |-> Nil, values |-> <<>>, size |-> 0,
     pool |-> {}, hasPool |-> TRUE, isKeyString |-> isKeyString(kt), vt |-> t]

New(kt, t) == NewWithCapacity(kt, t)

\* validateKey: the error it returns ("" is nil)
errKeyNotFound == "key not found"
errKeyMustBeStringForJson == "error in json: key must be string"

validateKey(m) == IF m.isKeyString THEN "" ELSE errKeyMustBeStringForJson

(***************************************************************************)
(* sync.Pool.  Get returns a node some earlier Put left in the pool, or    *)
(* the node New allocates: the next unallocated one.                       *)
(***************************************************************************)
FreshNodes(h) == IF Cardinality(DOMAIN h) < MaxNodes THEN {Cardinality(DOMAIN h) + 1} ELSE {}

Avail(st) == st.om.pool \cup FreshNodes(st.nodes)

PoolGet(st, ord) ==
    LET i == CHOOSE i \in 1..MaxNodes :
                 /\ ord[i] \in Avail(st)
                 /\ \A j \in 1..(i - 1) : ord[j] \notin Avail(st)
    IN  ord[i]

\* the heap with node n set to r, allocated if it was not
Store(h, n, r) == [x \in DOMAIN h \cup {n} |-> IF x = n THEN r ELSE h[x]]

(***************************************************************************)
(* Set                                                                     *)
(***************************************************************************)
\* appendNode that links the new node before the head
appendNode_AtHead(st, key, value, ord) ==
    LET m  == st.om
        h  == st.nodes
        n  == PoolGet(st, ord)
        r  == [key |-> key, value |-> value, prev |-> Nil, next |-> Nil]
        h1 == Store(h, n, r)
        vs == [k \in DOMAIN m.values \cup {key} |-> IF k = key THEN n ELSE m.values[k]]
        m1 == [m EXCEPT !.values = vs, !.pool = m.pool \ {n}]
    IN  IF m.head = Nil
        THEN [om |-> [m1 EXCEPT !.head = n, !.tail = n, !.size = m.size + 1],
              nodes |-> h1]
        ELSE [om |-> [m1 EXCEPT !.head = n, !.size = m.size + 1],
              nodes |-> [h1 EXCEPT ![m.head].prev = n, ![n].next = m.head]]

\* the rest of Set, for a key that is not in the index: a node from the pool,
\* linked after the tail
appendNode(st, key, value, ord) ==
    LET m  == st.om
        h  == st.nodes
        n  == PoolGet(st, ord)
        r  == [key |-> key, value |-> value, prev |-> Nil, next |-> Nil]
        h1 == Store(h, n, r)
        vs == [k \in DOMAIN m.values \cup {key} |-> IF k = key THEN n ELSE m.values[k]]
        m1 == [m EXCEPT !.values = vs, !.pool = m.pool \ {n}]
    IN  IF m.head = Nil
        THEN [om |-> [m1 EXCEPT !.head = n, !.tail = n, !.size = m.size + 1],
              nodes |-> h1]
        ELSE [om |-> [m1 EXCEPT !.tail = n, !.size = m.size + 1],
              nodes |-> [h1 EXCEPT ![m.tail].next = n, ![n].prev = m.tail]]

\* Set that moves a key already present to the tail
Set_MoveToTail(st, key, value, ord) ==
    IF key \in DOMAIN st.om.values
    THEN LET m  == st.om
             h  == st.nodes
             n  == m.values[key]
             m1 == IF n = m.head THEN [m EXCEPT !.head = h[n].next] ELSE m
             h1 == IF n = m.head THEN h ELSE [h EXCEPT ![h[n].prev].next = h[n].next]
             m2 == IF n = m.tail THEN [m1 EXCEPT !.tail = h1[n].prev] ELSE m1
             h2 == IF n # m.tail /\ h1[n].next # Nil
                   THEN [h1 EXCEPT ![h1[n].next].prev = h1[n].prev]
                   ELSE h1
             h3 == [h2 EXCEPT ![n] = [key |-> key, value |-> value,
                                      prev |-> m2.tail, next |-> Nil]]
         IN  IF m2.head = Nil
             THEN [om |-> [m2 EXCEPT !.head = n, !.tail = n], nodes |-> h3]
             ELSE [om |-> [m2 EXCEPT !.tail = n],
                   nodes |-> [h3 EXCEPT ![m2.tail].next = n]]
    ELSE appendNode(st, key, value, ord)

\* Set without the return that ends the branch of a key already present
Set_NoReturn(st, key, value, ord) ==
    IF key \in DOMAIN st.om.values
    THEN appendNode([om |-> st.om,
                     nodes |-> [st.nodes EXCEPT ![st.om.values[key]].value = value]],
                    key, value, ord)
    ELSE appendNode(st, key, value, ord)

Set(st, key, value, ord) ==
    IF key \in DOMAIN st.om.values
    THEN [om |-> st.om,
          nodes |-> [st.nodes EXCEPT ![st.om.values[key]].value = value]]
    ELSE appendNode(st, key, value, ord)

\* Set can be modelled when the key is present or a node can be had
CanSet(st, key) == key \in DOMAIN st.om.values \/ Avail(st) # {}

(***************************************************************************)
(* Get, GetOrDefault, ContainsKey, Len, IsEmpty                            *)
(***************************************************************************)
Get(st, key) ==
    IF key \in DOMAIN st.om.values
    THEN [value |-> st.nodes[st.om.values[key]].value, err |-> ""]
    ELSE [value |-> Zero(st.om.vt), err |-> errKeyNotFound]

GetOrDefault(st, key) ==
    IF key \in DOMAIN st.om.values
    THEN st.nodes[st.om.values[key]].value
    ELSE Zero(st.om.vt)

ContainsKey(st, key) == key \in DOMAIN st.om.values

OmLen(st) == st.om.size

IsEmpty(st) == st.om.size = 0

(***************************************************************************)
(* Traversal: the nodes met from n by following one link, at most `fuel`   *)
(* of them (a cycle would otherwise never end).                            *)
(***************************************************************************)
RECURSIVE Walk(_, _, _, _)
Walk(h, n, link, fuel) ==
    IF n = Nil \/ fuel = 0 THEN <<>>
    ELSE <<n>> \o Walk(h, IF link = "next" THEN h[n].next ELSE h[n].prev, link, fuel - 1)

Chain(st) == Walk(st.nodes, st.om.head, "next", MaxNodes + 1)

ChainBack(st) == Walk(st.nodes, st.om.tail, "prev", MaxNodes + 1)

\* Keys and Values: a slice of om.size elements, filled from the head
Keys(st) ==
    LET c == Chain(st)
    IN  [i \in 1..st.om.size |-> IF i <= Len(c) THEN st.nodes[c[i]].key ELSE ""]

Values(st) ==
    LET c == Chain(st)
    IN  [i \in 1..st.om.size |-> IF i <= Len(c) THEN st.nodes[c[i]].value ELSE Zero(st.om.vt)]

\* ForEach and ForEachReverse: the (key, value) pairs handed to f, in order
ForEach(st) ==
    LET c == Chain(st) IN [i \in 1..Len(c) |-> <<st.nodes[c[i]].key, st.nodes[c[i]].value>>]

ForEachReverse(st) ==
    LET c == ChainBack(st) IN [i \in 1..Len(c) |-> <<st.nodes[c[i]].key, st.nodes[c[i]].value>>]

IndexOf(st, key) ==
    LET c == Chain(st)
        hits == {i \in 1..Len(c) : st.nodes[c[i]].key = key}
    IN  IF hits = {} THEN -1
        ELSE (CHOOSE i \in hits : \A j \in hits : i <= j) - 1

(***************************************************************************)
(* Delete                                                                  *)
(***************************************************************************)
\* Delete that counts down the size for a key that is not in the index
Delete_AbsentCounts(st, key) ==
    IF key \notin DOMAIN st.om.values
    THEN [om |-> [st.om EXCEPT !.size = st.om.size - 1], nodes |-> st.nodes]
    ELSE st

\* Delete that does not patch the prev link of the successor
Delete_NoBackLink(st, key) ==
    LET m == st.om
        h == st.nodes
    IN  IF key \notin DOMAIN m.values THEN st
        ELSE LET n  == m.values[key]
                 m1 == IF n = m.head THEN [m EXCEPT !.head = h[n].next] ELSE m
                 h1 == IF n = m.head THEN h ELSE [h EXCEPT ![h[n].prev].next = h[n].next]
                 m2 == IF n = m.tail THEN [m1 EXCEPT !.tail = h1[n].prev] ELSE m1
                 vs == [k \in DOMAIN m.values \ {key} |-> m.values[k]]
             IN  [om |-> [m2 EXCEPT !.values = vs,
                                    !.pool = m.pool \cup {n},
                                    !.size = m.size - 1],
                  nodes |-> [h1 EXCEPT ![n].prev = Nil, ![n].next = Nil]]

\* Delete that leaves the key in the index
Delete_KeepIndex(st, key) ==
    LET m == st.om
        h == st.nodes
    IN  IF key \notin DOMAIN m.values THEN st
        ELSE LET n  == m.values[key]
                 m1 == IF n = m.head THEN [m EXCEPT !.head = h[n].next] ELSE m
                 h1 == IF n = m.head THEN h ELSE [h EXCEPT ![h[n].prev].next = h[n].next]
                 m2 == IF n = m.tail THEN [m1 EXCEPT !.tail = h1[n].prev] ELSE m1
                 h2 == IF n # m.tail /\ h1[n].next # Nil
                       THEN [h1 EXCEPT ![h1[n].next].prev = h1[n].prev]
                       ELSE h1
             IN  [om |-> [m2 EXCEPT !.pool = m.pool \cup {n}, !.size = m.size - 1],
                  nodes |-> [h2 EXCEPT ![n].prev = Nil, ![n].next = Nil]]

\* Delete that does not patch the predecessor of an interior or tail node
Delete_NoUnlink(st, key) ==
    LET m == st.om
        h == st.nodes
    IN  IF key \notin DOMAIN m.values THEN st
        ELSE LET n  == m.values[key]
                 \* if n == om.head { om.head = n.next } else { n.prev.next = n.next }
                 m1 == IF n = m.head THEN [m EXCEPT !.head = h[n].next] ELSE m
                 h1 == h
                 \* if n == om.tail { om.tail = n.prev } else if n.next != nil { n.next.prev = n.prev }
                 m2 == IF n = m.tail THEN [m1 EXCEPT !.tail = h1[n].prev] ELSE m1
                 h2 == IF n # m.tail /\ h1[n].next # Nil
                       THEN [h1 EXCEPT ![h1[n].next].prev = h1[n].prev]
                       ELSE h1
                 vs == [k \in DOMAIN m.values \ {key} |-> m.values[k]]
             IN  [om |-> [m2 EXCEPT !.values = vs,
                                    !.pool = m.pool \cup {n},
                                    !.size = m.size - 1],
                  nodes |-> [h2 EXCEPT ![n].prev = Nil, ![n].next = Nil]]

Delete(st, key) ==
    LET m == st.om
        h == st.nodes
    IN  IF key \notin DOMAIN m.values THEN st
        ELSE LET n  == m.values[key]
                 \* if n == om.head { om.head = n.next } else { n.prev.next = n.next }
                 m1 == IF n = m.head THEN [m EXCEPT !.head = h[n].next] ELSE m
                 h1 == IF n = m.head THEN h ELSE [h EXCEPT ![h[n].prev].next = h[n].next]
                 \* if n == om.tail { om.tail = n.prev } else if n.next != nil { n.next.prev = n.prev }
                 m2 == IF n = m.tail THEN [m1 EXCEPT !.tail = h1[n].prev] ELSE m1
                 h2 == IF n # m.tail /\ h1[n].next # Nil
                       THEN [h1 EXCEPT ![h1[n].next].prev = h1[n].prev]
                       ELSE h1
                 vs == [k \in DOMAIN m.values \ {key} |-> m.values[k]]
             IN  [om |-> [m2 EXCEPT !.values = vs,
                                    !.pool = m.pool \cup {n},
                                    !.size = m.size - 1],
                  nodes |-> [h2 EXCEPT ![n].prev = Nil, ![n].next = Nil]]

(***************************************************************************)
(* Pop                                                                     *)
(***************************************************************************)
\* Pop that returns the value and leaves the entry where it is
Pop_NoDelete(st, key) ==
    IF key \in DOMAIN st.om.values
    THEN [st |-> st, value |-> st.nodes[st.om.values[key]].value, found |-> TRUE]
    ELSE [st |-> st, value |-> Zero(st.om.vt), found |-> FALSE]

Pop(st, key) ==
    IF key \in DOMAIN st.om.values
    THEN [st |-> Delete(st, key), value |-> st.nodes[st.om.values[key]].value, found |-> TRUE]
    ELSE [st |-> st, value |-> Zero(st.om.vt), found |-> FALSE]

(***************************************************************************)
(* Clear                                                                   *)
(***************************************************************************)
\* the loop of Clear that puts the nodes in the pool with their links
RECURSIVE ClearLoop_KeepLinks(_, _, _)
ClearLoop_KeepLinks(st, n, fuel) ==
    IF n = Nil \/ fuel = 0 THEN st
    ELSE ClearLoop_KeepLinks([om |-> [st.om EXCEPT !.pool = st.om.pool \cup {n}],
                              nodes |-> st.nodes],
                             st.nodes[n].next, fuel - 1)

\* the loop of Clear: every node met from n has its links cleared and is put
\* in the pool
RECURSIVE ClearLoop(_, _, _)
ClearLoop(st, n, fuel) ==
    IF n = Nil \/ fuel = 0 THEN st
    ELSE LET next == st.nodes[n].next
         IN  ClearLoop([om |-> [st.om EXCEPT !.pool = st.om.pool \cup {n}],
                        nodes |-> [st.nodes EXCEPT ![n].prev = Nil, ![n].next = Nil]],
                       next, fuel - 1)

\* Clear that leaves the size as it was
Clear_KeepSize(st) ==
    LET s1 == ClearLoop(st, st.om.head, MaxNodes + 1)
    IN  [om |-> [s1.om EXCEPT !.head = Nil, !.tail = Nil, !.values = <<>>],
         nodes |-> s1.nodes]

\* Clear that keeps the index it had
Clear_KeepIndex(st) ==
    LET s1 == ClearLoop(st, st.om.head, MaxNodes + 1)
    IN  [om |-> [s1.om EXCEPT !.head = Nil, !.tail = Nil, !.size = 0],
         nodes |-> s1.nodes]

Clear(st) ==
    LET s1 == ClearLoop(st, st.om.head, MaxNodes + 1)
    IN  [om |-> [s1.om EXCEPT !.head = Nil, !.tail = Nil, !.values = <<>>, !.size = 0],
         nodes |-> s1.nodes]

(***************************************************************************)
(* Reverse                                                                 *)
(***************************************************************************)
\* Reverse that swaps head and tail and leaves the links of the nodes alone
Reverse_HeadTailOnly(st) ==
    [om |-> [st.om EXCEPT !.head = st.om.tail, !.tail = st.om.head], nodes |-> st.nodes]

\* the loop of Reverse: n's links are swapped, and the loop goes on from what
\* is now n.next
RECURSIVE ReverseLoop(_, _, _)
ReverseLoop(h, n, fuel) ==
    IF n = Nil \/ fuel = 0 THEN h
    ELSE LET h1 == [h EXCEPT ![n].prev = h[n].next, ![n].next = h[n].prev]
         IN  ReverseLoop(h1, h1[n].next, fuel - 1)

Reverse(st) ==
    LET m1 == [st.om EXCEPT !.head = st.om.tail, !.tail = st.om.head]
    IN  [om |-> m1, nodes |-> ReverseLoop(st.nodes, m1.head, MaxNodes + 1)]

(***************************************************************************)
(* SortAsc, SortDesc, sortKeys, rebuildFromKeys                            *)
(***************************************************************************)
\* Go's comparison of the strings of KeySeq (and of the zero string)
Rank(k) == IF k \in KeySet THEN CHOOSE i \in 1..Len(KeySeq) : KeySeq[i] = k ELSE 0

LessAsc(x, y) == Rank(x) < Rank(y)

\* the comparison of SortDesc with the sense of SortAsc's
LessDesc_Ascending(x, y) == Rank(x) < Rank(y)

LessDesc(x, y) == Rank(x) > Rank(y)

\* sort.SliceStable: insertion of each element after the last one it is not
\* less than
RECURSIVE InsertStable(_, _, _)
InsertStable(s, x, desc) ==
    IF s = <<>> THEN <<x>>
    ELSE LET l == s[Len(s)]
         IN  IF (IF desc THEN LessDesc(x, l) ELSE LessAsc(x, l))
             THEN InsertStable(SubSeq(s, 1, Len(s) - 1), x, desc) \o <<l>>
             ELSE s \o <<x>>

\* a sort that leaves the slice as it is
SliceStable_Unsorted(s, desc) == s

RECURSIVE SliceStable(_, _)
SliceStable(s, desc) ==
    IF s = <<>> THEN <<>>
    ELSE InsertStable(SliceStable(SubSeq(s, 1, Len(s) - 1), desc), s[Len(s)], desc)

\* the loop of rebuildFromKeys without `n.next = nil`
RECURSIVE rebuildLoop_KeepNext(_, _, _)
rebuildLoop_KeepNext(st, keys, i) ==
    IF i > Len(keys) THEN st
    ELSE LET m == st.om
             h == st.nodes
         IN  IF keys[i] \in DOMAIN m.values
             THEN LET n  == m.values[keys[i]]
                      h1 == [h EXCEPT ![n].prev = m.tail]
                      h2 == IF m.tail # Nil THEN [h1 EXCEPT ![m.tail].next = n] ELSE h1
                      m1 == [m EXCEPT !.head = IF m.head = Nil THEN n ELSE m.head,
                                      !.tail = n,
                                      !.size = m.size + 1]
                  IN  rebuildLoop_KeepNext([om |-> m1, nodes |-> h2], keys, i + 1)
             ELSE rebuildLoop_KeepNext(st, keys, i + 1)

RECURSIVE rebuildLoop(_, _, _)
rebuildLoop(st, keys, i) ==
    IF i > Len(keys) THEN st
    ELSE LET m == st.om
             h == st.nodes
         IN  IF keys[i] \in DOMAIN m.values
             THEN LET n  == m.values[keys[i]]
                      h1 == [h EXCEPT ![n].prev = m.tail, ![n].next = Nil]
                      h2 == IF m.tail # Nil THEN [h1 EXCEPT ![m.tail].next = n] ELSE h1
                      m1 == [m EXCEPT !.head = IF m.head = Nil THEN n ELSE m.head,
                                      !.tail = n,
                                      !.size = m.size + 1]
                  IN  rebuildLoop([om |-> m1, nodes |-> h2], keys, i + 1)
             ELSE rebuildLoop(st, keys, i + 1)

rebuildFromKeys(st, keys) ==
    rebuildLoop([om |-> [st.om EXCEPT !.head = Nil, !.tail = Nil, !.size = 0],
                 nodes |-> st.nodes], keys, 1)

sortKeys(st, desc) ==
    IF validateKey(st.om) # ""
    THEN [st |-> st, err |-> validateKey(st.om)]
    ELSE [st |-> rebuildFromKeys(st, SliceStable(Keys(st), desc)), err |-> ""]

SortAsc(st) == sortKeys(st, FALSE)

SortDesc(st) == sortKeys(st, TRUE)

(***************************************************************************)
(* JSON text, as the sequence of its lexemes: the six structural           *)
(* characters, string literals, numbers, null, and a character that starts *)
(* no token.                                                               *)
(***************************************************************************)
Lex(t, s, n) == [t |-> t, s |-> s, n |-> n]

LB == Lex("{", "", 0)
RB == Lex("}", "", 0)
LK == Lex("[", "", 0)
RK == Lex("]", "", 0)
Comma == Lex(",", "", 0)
Colon == Lex(":", "", 0)
Null == Lex("null", "", 0)
Bad == Lex("bad", "", 0)
Str(k) == Lex("str", k, 0)
Num(v) == Lex("num", "", v)

\* the value a pointer to a container is modelled by: what the container holds
PtrTo(kv) == [nil |-> FALSE, kv |-> kv]

\* the entries of a container, head to tail
Entries(st) ==
    LET c == Chain(st)
    IN  [i \in 1..Len(c) |-> [k |-> st.nodes[c[i]].key, v |-> st.nodes[c[i]].value]]

\* the type of the values of the container a value of type t points to
Elem(t) == IF t = "omInt" THEN "int" ELSE "any"

(***************************************************************************)
(* MarshalJSON.  json.Marshal of a key is one string literal; json.Marshal *)
(* of a value is a number for an int, the text it was decoded from for a   *)
(* dynamic value, and for a pointer to a container null or what that       *)
(* container's MarshalJSON writes.                                         *)
(***************************************************************************)
RECURSIVE MarshalValue(_, _)
RECURSIVE MarshalEntries(_, _, _)
MarshalEntries(es, t, i) ==
    IF i > Len(es) THEN <<>>
    ELSE (IF i > 1 THEN <<Comma>> ELSE <<>>)
         \o <<Str(es[i].k), Colon>> \o MarshalValue(es[i].v, t)
         \o MarshalEntries(es, t, i + 1)

MarshalValue(v, t) ==
    IF t = "int" THEN <<Num(v)>>
    ELSE IF t = "any" THEN (IF v = <<>> THEN <<Null>> ELSE v)
    ELSE IF v.nil THEN <<Null>>
    ELSE <<LB>> \o MarshalEntries(v.kv, Elem(t), 1) \o <<RB>>

\* MarshalJSON that ranges over the index, here in the order of the keys,
\* instead of following the links
MarshalJSON_ByIndex(st) ==
    IF validateKey(st.om) # ""
    THEN [data |-> <<>>, err |-> validateKey(st.om)]
    ELSE LET ks == SliceStable(Keys(st), FALSE)
             es == [i \in 1..Len(ks) |-> [k |-> ks[i], v |-> Get(st, ks[i]).value]]
         IN  [data |-> <<LB>> \o MarshalEntries(es, st.om.vt, 1) \o <<RB>>, err |-> ""]

\* MarshalJSON that writes the separator after every member instead of before
\* every member but the first
MarshalJSON_TrailingComma(st) ==
    IF validateKey(st.om) # ""
    THEN [data |-> <<>>, err |-> validateKey(st.om)]
    ELSE [data |-> <<LB>> \o MarshalEntries(Entries(st), st.om.vt, 1)
                   \o (IF Entries(st) = <<>> THEN <<>> ELSE <<Comma>>) \o <<RB>>,
          err |-> ""]

MarshalJSON(st) ==
    IF validateKey(st.om) # ""
    THEN [data |-> <<>>, err |-> validateKey(st.om)]
    ELSE [data |-> <<LB>> \o MarshalEntries(Entries(st), st.om.vt, 1) \o <<RB>>,
          err |-> ""]

(***************************************************************************)
(* The json.Decoder the method reads with, at position i of the text.      *)
(***************************************************************************)
\* Token: the next token; separators before it are passed over
RECURSIVE Token(_, _)
Token(data, i) ==
    IF i > Len(data) THEN [tok |-> Bad, i |-> i, err |-> "EOF"]
    ELSE IF data[i].t \in {",", ":"} THEN Token(data, i + 1)
    ELSE IF data[i].t = "bad" THEN [tok |-> Bad, i |-> i, err |-> "invalid character"]
    ELSE [tok |-> data[i], i |-> i + 1, err |-> ""]

\* More: whether another element precedes the closing delimiter
More(data, i) == i <= Len(data) /\ data[i].t \notin {"}", "]"}

\* the position after the delimiter that closes `depth` open ones, 0 if none does
RECURSIVE Match(_, _, _)
Match(data, i, depth) ==
    IF depth = 0 THEN i
    ELSE IF i > Len(data) \/ data[i].t = "bad" THEN 0
    ELSE IF data[i].t \in {"{", "["} THEN Match(data, i + 1, depth + 1)
    ELSE IF data[i].t \in {"}", "]"} THEN Match(data, i + 1, depth - 1)
    ELSE Match(data, i + 1, depth)

\* the position after the value that starts at i, 0 if none starts there
ValueEnd(data, i) ==
    IF i > Len(data) THEN 0
    ELSE IF data[i].t \in {"str", "num", "null"} THEN i + 1
    ELSE IF data[i].t \in {"{", "["} THEN Match(data, i + 1, 1)
    ELSE 0

\* dec.Decode(&raw): one separator is passed over, then the text of one value
DecodeRaw(data, i) ==
    LET j == IF i <= Len(data) /\ data[i].t \in {",", ":"} THEN i + 1 ELSE i
        e == ValueEnd(data, j)
    IN  IF e = 0 THEN [raw |-> <<>>, i |-> j, err |-> "error in json"]
        ELSE [raw |-> SubSeq(data, j, e - 1), i |-> e, err |-> ""]

\* reflect's new(orderedMap[K, V]), which json.Unmarshal makes for a nil pointer
\* to a container: every field zero
ZeroMap(t) ==
    [head |-> Nil, tail |-> Nil, values |-> <<>>, size |-> 0,
     pool |-> {}, hasPool |-> FALSE, isKeyString |-> FALSE, vt |-> t]

(***************************************************************************)
(* UnmarshalJSON                                                           *)
(***************************************************************************)
RECURSIVE UnmarshalJSON(_, _, _)
RECURSIVE UnmarshalValue(_, _, _)
RECURSIVE decodeMembers(_, _, _, _)

\* lines 324-335: the value of a member from its text
UnmarshalValue(t, raw, ord) ==
    IF t = "int"
    THEN IF Len(raw) = 1 /\ raw[1].t = "num" THEN [value |-> raw[1].n, err |-> ""]
         ELSE IF raw = <<Null>> THEN [value |-> 0, err |-> ""]
         ELSE [value |-> 0, err |-> "error unmarshaling value"]
    ELSE IF t = "any"
    THEN [value |-> IF raw = <<Null>> THEN <<>> ELSE raw, err |-> ""]
    ELSE IF t = "omAny"
    THEN LET r == UnmarshalJSON([om |-> New("string", "any"), nodes |-> <<>>], raw, ord)
         IN  IF r.err # "" THEN [value |-> NilPtr, err |-> "error unmarshaling nested map"]
             ELSE [value |-> PtrTo(Entries(r.st)), err |-> ""]
    ELSE IF raw = <<Null>> THEN [value |-> NilPtr, err |-> ""]
    ELSE LET r == UnmarshalJSON([om |-> ZeroMap(Elem(t)), nodes |-> <<>>], raw, ord)
         IN  IF r.err # "" THEN [value |-> NilPtr, err |-> "error unmarshaling value"]
             ELSE [value |-> PtrTo(Entries(r.st)), err |-> ""]

\* lines 307-342: the members, then the closing token
decodeMembers(st, data, i, ord) ==
    IF ~More(data, i)
    THEN IF Token(data, i).err # ""
         THEN [st |-> st, err |-> "error reading closing token"]
         ELSE [st |-> st, err |-> ""]
    ELSE LET tk == Token(data, i)
         IN  IF tk.err # "" THEN [st |-> st, err |-> "error in json"]
             ELSE IF tk.tok.t # "str" THEN [st |-> st, err |-> "expected string key"]
             ELSE LET rw == DecodeRaw(data, tk.i)
                  IN  IF rw.err # "" THEN [st |-> st, err |-> rw.err]
                      ELSE LET v == UnmarshalValue(st.om.vt, rw.raw, ord)
                           IN  IF v.err # "" THEN [st |-> st, err |-> v.err]
                               ELSE IF ~ContainsKey(st, tk.tok.s) /\ ~st.om.hasPool
                               THEN [st |-> st, err |-> "panic: nil pointer dereference"]
                               ELSE decodeMembers(Set(st, tk.tok.s, v.value, ord),
                                                  data, rw.i, ord)

\* UnmarshalJSON that clears the container before it looks at the key type
UnmarshalJSON_ClearFirst(st, data, ord) ==
    IF validateKey(st.om) # "" THEN [st |-> Clear(st), err |-> validateKey(st.om)]
    ELSE IF data = <<Null>> THEN [st |-> Clear(st), err |-> ""]
    ELSE IF Token(data, 1).err # ""
         THEN [st |-> Clear(st), err |-> "error reading opening token"]
         ELSE decodeMembers(Clear(st), data, Token(data, 1).i, ord)

\* UnmarshalJSON that does not clear the container before it reads an object
UnmarshalJSON_NoClear(st, data, ord) ==
    IF validateKey(st.om) # "" THEN [st |-> st, err |-> validateKey(st.om)]
    ELSE IF data = <<Null>> THEN [st |-> Clear(st), err |-> ""]
    ELSE IF Token(data, 1).err # ""
         THEN [st |-> st, err |-> "error reading opening token"]
         ELSE decodeMembers(st, data, Token(data, 1).i, ord)

UnmarshalJSON(st, data, ord) ==
    IF validateKey(st.om) # "" THEN [st |-> st, err |-> validateKey(st.om)]
    ELSE IF data = <<Null>> THEN [st |-> Clear(st), err |-> ""]
    ELSE IF Token(data, 1).err # ""
         THEN [st |-> Clear(st), err |-> "error reading opening token"]
         ELSE decodeMembers(Clear(st), data, Token(data, 1).i, ord)

(***************************************************************************)
(* The slice-backed containers: keys and values in parallel slices, pos    *)
(* the position (from 0) of every key.  P1 is src/unnamed/part_001, P2 is  *)
(* src/unnamed/part_002.                                                   *)
(***************************************************************************)
NewOrderedMap == [keys |-> <<>>, values |-> <<>>, pos |-> <<>>]

SetP1(m, key, value) ==
    IF key \in DOMAIN m.pos
    THEN [m EXCEPT !.values[m.pos[key] + 1] = value]
    ELSE [keys |-> Append(m.keys, key),
          values |-> Append(m.values, value),
          pos |-> [k \in DOMAIN m.pos \cup {key} |-> IF k = key THEN Len(m.keys) ELSE m.pos[k]]]

GetP1(m, key) ==
    IF key \in DOMAIN m.pos
    THEN [value |-> m.values[m.pos[key] + 1], err |-> ""]
    ELSE [value |-> 0, err |-> errKeyNotFound]

\* delete(om.pos, key) first, then the last element is copied over position i
DeleteP1(m, key) ==
    IF key \notin DOMAIN m.pos THEN m
    ELSE LET i       == m.pos[key]
             lastIdx == Len(m.keys) - 1
             pos1    == [k \in DOMAIN m.pos \ {key} |-> m.pos[k]]
             keys1   == IF i # lastIdx THEN [m.keys EXCEPT ![i + 1] = m.keys[lastIdx + 1]]
                        ELSE m.keys
             values1 == IF i # lastIdx THEN [m.values EXCEPT ![i + 1] = m.values[lastIdx + 1]]
                        ELSE m.values
             pos2    == IF i # lastIdx
                        THEN [k \in DOMAIN pos1 \cup {keys1[i + 1]} |->
                                 IF k = keys1[i + 1] THEN i ELSE pos1[k]]
                        ELSE pos1
         IN  [keys |-> SubSeq(keys1, 1, lastIdx),
              values |-> SubSeq(values1, 1, lastIdx),
              pos |-> pos2]

KeysP1(m) == m.keys

ValuesP1(m) == m.values

SetP2(m, key, value) ==
    IF key \in DOMAIN m.pos
    THEN [m EXCEPT !.values[m.pos[key] + 1] = value]
    ELSE [keys |-> Append(m.keys, key),
          values |-> Append(m.values, value),
          pos |-> [k \in DOMAIN m.pos \cup {key} |-> IF k = key THEN Len(m.keys) ELSE m.pos[k]]]

GetP2(m, key) ==
    IF key \in DOMAIN m.pos
    THEN [value |-> m.values[m.pos[key] + 1], err |-> ""]
    ELSE [value |-> 0, err |-> errKeyNotFound]

\* position i and the last position are swapped, then delete(om.pos, key)
DeleteP2(m, key) ==
    IF key \notin DOMAIN m.pos THEN m
    ELSE LET i       == m.pos[key]
             lastIdx == Len(m.keys) - 1
             keys1   == IF i # lastIdx
                        THEN [m.keys EXCEPT ![i + 1] = m.keys[lastIdx + 1],
                                            ![lastIdx + 1] = m.keys[i + 1]]
                        ELSE m.keys
             values1 == IF i # lastIdx
                        THEN [m.values EXCEPT ![i + 1] = m.values[lastIdx + 1],
                                              ![lastIdx + 1] = m.values[i + 1]]
                        ELSE m.values
             pos1    == IF i # lastIdx THEN [m.pos EXCEPT ![keys1[i + 1]] = i] ELSE m.pos
         IN  [keys |-> SubSeq(keys1, 1, lastIdx),
              values |-> SubSeq(values1, 1, lastIdx),
              pos |-> [k \in DOMAIN pos1 \ {key} |-> pos1[k]]]

KeysP2(m) == m.keys

ValuesP2(m) == m.values

(***************************************************************************)
(* The state machine.  S is the store the methods act on.  `last` records  *)
(* the call that led to the state: its name, its arguments and what it     *)
(* returned; idx is the position the key had when the call was made.       *)
(***************************************************************************)
\* A second container.  A node pointer is an address in the heap of the pool
\* that allocated the node: a container made by New has a pool of its own, so
\* its nodes are in a heap of its own (heap = "own", the heap is the field
\* nodes); a container that held the pool and the nodes of the first one would
\* read and write the heap of the first one (heap = "source").
NewOther == [om |-> New("string", "int"), nodes |-> <<>>, heap |-> "own"]

S == [om |-> om, nodes |-> nodes]

\* the store after the step
SNext == [om |-> om', nodes |-> nodes']

Call(op, key, value, idx, ret, found, err, data) ==
    [op |-> op, key |-> key, value |-> value, idx |-> idx, ret |-> ret,
     found |-> found, err |-> err, data |-> data]

NoCall == Call("", "", 0, -1, 0, FALSE, "", <<>>)

Init ==
    /\ om = New("string", "int")
    /\ nodes = <<>>
    /\ last = NoCall
    /\ hist = <<>>
    /\ sm1 = NewOrderedMap
    /\ sm2 = NewOrderedMap
    /\ other = NewOther

CallSet ==
    \E key \in KeySet, value \in ValSet, n \in Node :
        /\ IF ContainsKey(S, key) THEN n = 1 ELSE n \in Avail(S)
        /\ LET s1 == Set(S, key, value, First(n))
           IN  /\ om' = s1.om
               /\ nodes' = s1.nodes
        /\ last' = Call("Set", key, value, IndexOf(S, key), 0, ContainsKey(S, key), "", <<>>)
        /\ UNCHANGED <<hist, sm1, sm2, other>>

CallGet ==
    \E key \in KeySet :
        /\ last' = Call("Get", key, 0, IndexOf(S, key), Get(S, key).value,
                        Get(S, key).err = "", Get(S, key).err, <<>>)
        /\ UNCHANGED <<om, nodes, hist, sm1, sm2, other>>

CallGetOrDefault ==
    \E key \in KeySet :
        /\ last' = Call("GetOrDefault", key, 0, IndexOf(S, key), GetOrDefault(S, key),
                        ContainsKey(S, key), "", <<>>)
        /\ UNCHANGED <<om, nodes, hist, sm1, sm2, other>>

CallDelete ==
    \E key \in KeySet :
        /\ LET s1 == Delete(S, key)
           IN  /\ om' = s1.om
               /\ nodes' = s1.nodes
        /\ last' = Call("Delete", key, 0, IndexOf(S, key), 0, ContainsKey(S, key), "", <<>>)
        /\ UNCHANGED <<hist, sm1, sm2, other>>

CallPop ==
    \E key \in KeySet :
        /\ LET r == Pop(S, key)
           IN  /\ om' = r.st.om
               /\ nodes' = r.st.nodes
               /\ last' = Call("Pop", key, 0, IndexOf(S, key), r.value, r.found, "", <<>>)
        /\ UNCHANGED <<hist, sm1, sm2, other>>

CallClear ==
    /\ LET s1 == Clear(S)
       IN  /\ om' = s1.om
           /\ nodes' = s1.nodes
    /\ last' = Call("Clear", "", 0, -1, 0, FALSE, "", <<>>)
    /\ UNCHANGED <<hist, sm1, sm2, other>>

CallReverse ==
    /\ LET s1 == Reverse(S)
       IN  /\ om' = s1.om
           /\ nodes' = s1.nodes
    /\ last' = Call("Reverse", "", 0, -1, 0, FALSE, "", <<>>)
    /\ UNCHANGED <<hist, sm1, sm2, other>>

CallSortAsc ==
    /\ LET r == SortAsc(S)
       IN  /\ om' = r.st.om
           /\ nodes' = r.st.nodes
           /\ last' = Call("SortAsc", "", 0, -1, 0, FALSE, r.err, <<>>)
    /\ UNCHANGED <<hist, sm1, sm2, other>>

CallSortDesc ==
    /\ LET r == SortDesc(S)
       IN  /\ om' = r.st.om
           /\ nodes' = r.st.nodes
           /\ last' = Call("SortDesc", "", 0, -1, 0, FALSE, r.err, <<>>)
    /\ UNCHANGED <<hist, sm1, sm2, other>>

CallMarshalJSON ==
    /\ last' = Call("MarshalJSON", "", 0, -1, 0, FALSE, MarshalJSON(S).err, MarshalJSON(S).data)
    /\ UNCHANGED <<om, nodes, hist, sm1, sm2, other>>

\* the text MarshalJSON has just written is decoded into the container
CallUnmarshalMarshaled ==
    \E ord \in Orders :
        /\ last.op = "MarshalJSON"
        /\ last.err = ""
        /\ LET r == UnmarshalJSON(S, last.data, ord)
           IN  /\ om' = r.st.om
               /\ nodes' = r.st.nodes
               /\ last' = Call("UnmarshalJSON", "", 0, -1, 0, FALSE, r.err, last.data)
        /\ UNCHANGED <<hist, sm1, sm2, other>>

Next ==
    \/ CallSet
    \/ CallGet
    \/ CallGetOrDefault
    \/ CallDelete
    \/ CallPop
    \/ CallClear
    \/ CallReverse
    \/ CallSortAsc
    \/ CallSortDesc
    \/ CallMarshalJSON
    \/ CallUnmarshalMarshaled

Spec == Init /\ [][Next]_vars

(***************************************************************************)
(* A fresh container that only ever sees Set; hist is the calls made.      *)
(***************************************************************************)
CallSetRecorded ==
    \E key \in KeySet, value \in ValSet, n \in Node :
        /\ Len(hist) < MaxHist
        /\ IF ContainsKey(S, key) THEN n = 1 ELSE n \in Avail(S)
        /\ LET s1 == Set(S, key, value, First(n))
           IN  /\ om' = s1.om
               /\ nodes' = s1.nodes
        /\ last' = Call("Set", key, value, IndexOf(S, key), 0, ContainsKey(S, key), "", <<>>)
        /\ hist' = Append(hist, [key |-> key, value |-> value])
        /\ UNCHANGED <<sm1, sm2, other>>

NextSet == CallSetRecorded

SpecSet == Init /\ [][NextSet]_vars

\* the operations of the sequence-of-calls view, used by the claims
RECURSIVE FirstKeys(_)
FirstKeys(h) ==
    IF h = <<>> THEN <<>>
    ELSE LET f == FirstKeys(SubSeq(h, 1, Len(h) - 1))
             k == h[Len(h)].key
         IN  IF \E i \in 1..Len(f) : f[i] = k THEN f ELSE Append(f, k)

LastValue(h, k) ==
    LET is == {i \in 1..Len(h) : h[i].key = k}
    IN  h[CHOOSE i \in is : \A j \in is : j <= i].value

\* s without its element at position i (1-based)
RemoveAt(s, i) == SubSeq(s, 1, i - 1) \o SubSeq(s, i + 1, Len(s))

(***************************************************************************)
(* The codec on its own: a container that some calls have filled decodes   *)
(* a text.  The texts are the encodings of up to MaxMembers members, and   *)
(* those encodings cut short or with one lexeme replaced.                  *)
(***************************************************************************)
\* the number of members of the objects the texts are made from
MaxMembers == 2

MemberLists == UNION {[1..n -> [k : KeySet, v : ValSet]] : n \in 0..MaxMembers}

\* the text of the object with the members ms
Encode(ms) == <<LB>> \o MarshalEntries(ms, "int", 1) \o <<RB>>

ReplaceAt(w, i, x) == [j \in 1..Len(w) |-> IF j = i THEN x ELSE w[j]]

Malformed(w) ==
    {SubSeq(w, 1, n) : n \in 0..(Len(w) - 1)}
    \cup {ReplaceAt(w, 1, x) : x \in {LK, Num(1), Bad}}
    \cup {ReplaceAt(w, Len(w), RK)}
    \cup {ReplaceAt(w, i, x) : i \in {j \in 1..Len(w) : w[j].t = "str"}, x \in {Num(1), Null}}
    \cup {ReplaceAt(w, i, x) : i \in {j \in 1..Len(w) : w[j].t = "num"}, x \in {Str("a"), Null, LK}}

Inputs ==
    {Encode(ms) : ms \in MemberLists}
    \cup UNION {Malformed(Encode(ms)) : ms \in MemberLists}
    \cup {<<Null>>, <<LK, RK>>, <<LK, Str("a"), Comma, Num(1), RK>>, <<Str("a")>>}

\* the calls that fill the container before it decodes
SetCall(k, v) == [op |-> "Set", key |-> k, value |-> v]
DeleteCall(k) == [op |-> "Delete", key |-> k, value |-> 0]

Identity == [i \in 1..MaxNodes |-> i]

RECURSIVE Run(_, _, _)
Run(st, calls, i) ==
    IF i > Len(calls) THEN st
    ELSE Run(IF calls[i].op = "Set" THEN Set(st, calls[i].key, calls[i].value, Identity)
             ELSE Delete(st, calls[i].key),
             calls, i + 1)

Filled ==
    {<<>>,
     <<SetCall("a", 1)>>,
     <<SetCall("a", 1), SetCall("c", 2)>>,
     <<SetCall("a", 1), SetCall("b", 2), SetCall("c", 1), DeleteCall("b")>>,
     <<SetCall("c", 2), SetCall("b", 1), SetCall("a", 2)>>,
     <<SetCall("b", 1), DeleteCall("b")>>}

InitJSON ==
    /\ \E calls \in Filled :
          LET st == Run([om |-> New("string", "int"), nodes |-> <<>>], calls, 1)
          IN  /\ om = st.om
              /\ nodes = st.nodes
    /\ last = NoCall
    /\ hist = <<>>
    /\ sm1 = NewOrderedMap
    /\ sm2 = NewOrderedMap
    /\ other = NewOther

\* one decode of each filled container
CallUnmarshalJSON ==
    \E data \in Inputs, ord \in Orders :
        /\ last.op = ""
        /\ LET r == UnmarshalJSON(S, data, ord)
           IN  /\ om' = r.st.om
               /\ nodes' = r.st.nodes
               /\ last' = Call("UnmarshalJSON", "", 0, -1, 0, FALSE, r.err, data)
        /\ UNCHANGED <<hist, sm1, sm2, other>>

NextJSON == CallUnmarshalJSON

SpecJSON == InitJSON /\ [][NextJSON]_vars

(***************************************************************************)
(* The slice-backed containers under Set and Delete.                       *)
(***************************************************************************)
CallSetP1 ==
    \E key \in KeySet, value \in ValSet :
        /\ sm1' = SetP1(sm1, key, value)
        /\ last' = Call("SetP1", key, value, IF key \in DOMAIN sm1.pos THEN sm1.pos[key] ELSE -1,
                        0, key \in DOMAIN sm1.pos, "", <<>>)
        /\ UNCHANGED <<om, nodes, hist, sm2, other>>

CallDeleteP1 ==
    \E key \in KeySet :
        /\ sm1' = DeleteP1(sm1, key)
        /\ last' = Call("DeleteP1", key, 0, IF key \in DOMAIN sm1.pos THEN sm1.pos[key] ELSE -1,
                        0, key \in DOMAIN sm1.pos, "", <<>>)
        /\ UNCHANGED <<om, nodes, hist, sm2, other>>

CallSetP2 ==
    \E key \in KeySet, value \in ValSet :
        /\ sm2' = SetP2(sm2, key, value)
        /\ last' = Call("SetP2", key, value, IF key \in DOMAIN sm2.pos THEN sm2.pos[key] ELSE -1,
                        0, key \in DOMAIN sm2.pos, "", <<>>)
        /\ UNCHANGED <<om, nodes, hist, sm1, other>>

CallDeleteP2 ==
    \E key \in KeySet :
        /\ sm2' = DeleteP2(sm2, key)
        /\ last' = Call("DeleteP2", key, 0, IF key \in DOMAIN sm2.pos THEN sm2.pos[key] ELSE -1,
                        0, key \in DOMAIN sm2.pos, "", <<>>)
        /\ UNCHANGED <<om, nodes, hist, sm1, other>>

NextSlice ==
    \/ CallSetP1
    \/ CallDeleteP1
    \/ CallSetP2
    \/ CallDeleteP2

SpecSlice == Init /\ [][NextSlice]_vars

(***************************************************************************)
(* Containers whose values are pointers to containers: V is                *)
(* *orderedMap[string, int] ("omInt") or *orderedMap[string, any]          *)
(* ("omAny").  The inner containers are made by New and filled by Set.     *)
(***************************************************************************)
\* a value of the inner container's value type
InnerValue(t, v) == IF t = "int" THEN v ELSE <<Num(v)>>

InnerFilled(t) ==
    {<<>>,
     <<SetCall("a", InnerValue(t, 1))>>,
     <<SetCall("b", InnerValue(t, 1)), SetCall("a", InnerValue(t, 2))>>}

InnerValues(t) ==
    {PtrTo(Entries(Run([om |-> New("string", Elem(t)), nodes |-> <<>>], calls, 1))) :
        calls \in InnerFilled(Elem(t))}

InitNested ==
    /\ \E t \in {"omInt", "omAny"} : om = New("string", t)
    /\ nodes = <<>>
    /\ last = NoCall
    /\ hist = <<>>
    /\ sm1 = NewOrderedMap
    /\ sm2 = NewOrderedMap
    /\ other = NewOther

CallSetNested ==
    \E key \in KeySet, value \in InnerValues(om.vt), n \in Node :
        /\ IF ContainsKey(S, key) THEN n = 1 ELSE n \in Avail(S)
        /\ LET s1 == Set(S, key, value, First(n))
           IN  /\ om' = s1.om
               /\ nodes' = s1.nodes
        /\ last' = Call("Set", key, 0, IndexOf(S, key), 0, ContainsKey(S, key), "", <<>>)
        /\ UNCHANGED <<hist, sm1, sm2, other>>

NextNested ==
    \/ CallSetNested
    \/ CallMarshalJSON
    \/ CallUnmarshalMarshaled

SpecNested == InitNested /\ [][NextNested]_vars

(***************************************************************************)
(* C1.  For every sequence of Set calls on a fresh container, keys         *)
(* repeating or not, Keys() is the distinct keys in the order of their     *)
(* first Set, and Values() holds at each position the value of the last    *)
(* Set on that key.                                                        *)
(***************************************************************************)
C1_SetOrder ==
    /\ Keys(S) = FirstKeys(hist)
    /\ Len(Values(S)) = Len(FirstKeys(hist))
    /\ \A i \in 1..Len(FirstKeys(hist)) : Values(S)[i] = LastValue(hist, FirstKeys(hist)[i])

\* three calls on two keys, the first key set again between with another value
C1_Witness ==
    /\ Len(hist) = MaxHist
    /\ Len(FirstKeys(hist)) >= 2
    /\ \E i, j, l \in 1..Len(hist) :
          /\ i < j /\ j < l
          /\ hist[i].key = hist[l].key
          /\ hist[i].key # hist[j].key
          /\ hist[i].value # hist[l].value

(***************************************************************************)
(* C2.  Set(k, v) on a key that is present makes Get(k) return v and       *)
(* leaves IndexOf(k), Len(), Keys() and every other key's value as they    *)
(* were.                                                                   *)
(***************************************************************************)
C2_SetExistingFrame ==
    [][(last'.op = "Set" /\ ContainsKey(S, last'.key)) =>
          /\ Get(SNext, last'.key) = [value |-> last'.value, err |-> ""]
          /\ IndexOf(SNext, last'.key) = IndexOf(S, last'.key)
          /\ OmLen(SNext) = OmLen(S)
          /\ Keys(SNext) = Keys(S)
          /\ \A k \in KeySet \ {last'.key} : Get(SNext, k) = Get(S, k)]_vars

\* an update of the middle one of three keys that changed its value
C2_Witness ==
    /\ last.op = "Set"
    /\ last.found
    /\ last.idx = 1
    /\ OmLen(S) = 3
    /\ Get(S, last.key).value = 2

(***************************************************************************)
(* C3.  Delete(k) on a present key makes Get(k) signal key-not-found,      *)
(* decreases Len() by one and leaves Keys() and Values() as they were with *)
(* k's position removed.                                                   *)
(***************************************************************************)
C3_DeletePresent ==
    [][(last'.op = "Delete" /\ ContainsKey(S, last'.key)) =>
          /\ Get(SNext, last'.key).err = errKeyNotFound
          /\ OmLen(SNext) = OmLen(S) - 1
          /\ Keys(SNext) = RemoveAt(Keys(S), IndexOf(S, last'.key) + 1)
          /\ Values(SNext) = RemoveAt(Values(S), IndexOf(S, last'.key) + 1)]_vars

\* an interior entry was deleted from three
C3_Witness ==
    /\ last.op = "Delete"
    /\ last.found
    /\ last.idx = 1
    /\ OmLen(S) = 2

(***************************************************************************)
(* C4.  In the slice-backed containers Delete(k) on a present key removes  *)
(* k and leaves the remaining keys in their insertion order with their     *)
(* values, whatever the position of k.                                     *)
(***************************************************************************)
C4_SliceDeleteKeepsOrder ==
    [][/\ (last'.op = "DeleteP1" /\ last'.key \in DOMAIN sm1.pos) =>
             /\ KeysP1(sm1') = RemoveAt(KeysP1(sm1), sm1.pos[last'.key] + 1)
             /\ ValuesP1(sm1') = RemoveAt(ValuesP1(sm1), sm1.pos[last'.key] + 1)
       /\ (last'.op = "DeleteP2" /\ last'.key \in DOMAIN sm2.pos) =>
             /\ KeysP2(sm2') = RemoveAt(KeysP2(sm2), sm2.pos[last'.key] + 1)
             /\ ValuesP2(sm2') = RemoveAt(ValuesP2(sm2), sm2.pos[last'.key] + 1)]_vars

(***************************************************************************)
(* What the claims about decoding say of a text, read off the text itself. *)
(***************************************************************************)
\* the text is { "k" : v , ... } with numbers or null for values
WellFormedObject(data) ==
    /\ Len(data) >= 2
    /\ data[1] = LB
    /\ data[Len(data)] = RB
    /\ \/ Len(data) = 2
       \/ /\ (Len(data) - 1) % 4 = 0
          /\ \A j \in 0..((Len(data) - 1) \div 4 - 1) :
                /\ data[2 + 4 * j].t = "str"
                /\ data[3 + 4 * j] = Colon
                /\ data[4 + 4 * j].t \in {"num", "null"}
                /\ (4 * j + 5 < Len(data)) => data[5 + 4 * j] = Comma

\* the number of members { "k" : v , "k" : v ... starts with
RECURSIVE LeadingMembers(_, _)
LeadingMembers(data, j) ==
    IF /\ 4 + 4 * j <= Len(data)
       /\ data[1] = LB
       /\ data[1 + 4 * j] = (IF j = 0 THEN LB ELSE Comma)
       /\ data[2 + 4 * j].t = "str"
       /\ data[3 + 4 * j] = Colon
       /\ data[4 + 4 * j].t \in {"num", "null"}
    THEN LeadingMembers(data, j + 1)
    ELSE j

\* the first n members of the text, as the Set calls that apply them
MembersOf(data, n) ==
    [j \in 1..n |-> [key |-> data[4 * j - 2].s,
                     value |-> IF data[4 * j].t = "num" THEN data[4 * j].n ELSE 0]]

AllMembers(data) == MembersOf(data, (Len(data) - 1) \div 4)

\* the text gives key k the value v: the literal k is followed, after at most
\* one separator, by the number v (or by null, for the zero value)
Supplies(data, k, v) ==
    \E i \in 1..Len(data), j \in 1..Len(data) :
        /\ data[i] = Str(k)
        /\ j \in {i + 1, i + 2}
        /\ \/ data[j] = Num(v)
           \/ data[j] = Null /\ v = 0

IsPrefix(p, q) == Len(p) <= Len(q) /\ \A i \in 1..Len(p) : p[i] = q[i]

Decoded == last.op = "UnmarshalJSON" /\ last.err # errKeyMustBeStringForJson

C6_ErrorUnlessObject ==
    (/\ Decoded
     /\ last.data # <<Null>>
     /\ \/ last.data = <<>>
        \/ last.data[1] # LB
        \/ last.data[Len(last.data)] # RB)
    => last.err # ""

(***************************************************************************)
(* C7.  Decoding what MarshalJSON writes for a container, into a fresh     *)
(* container or into a filled one, succeeds and yields Keys() and Values() *)
(* equal to those of the container, element by element.                    *)
(***************************************************************************)
C7_RoundTrip ==
    [][/\ (last'.op = "MarshalJSON") =>
             /\ last'.err = ""
             /\ \A ord \in Orders :
                   LET r == UnmarshalJSON([om |-> New("string", "int"), nodes |-> <<>>],
                                          last'.data, ord)
                   IN  /\ r.err = ""
                       /\ Keys(r.st) = Keys(SNext)
                       /\ Values(r.st) = Values(SNext)
       /\ (last.op = "MarshalJSON" /\ last'.op = "UnmarshalJSON" /\ last'.data = last.data) =>
             /\ last'.err = ""
             /\ Keys(SNext) = Keys(S)
             /\ Values(SNext) = Values(S)]_vars

\* three entries that are not in the order of their keys were encoded, and the
\* text was decoded into the container
C7_Witness ==
    /\ last.op = "UnmarshalJSON"
    /\ last.err = ""
    /\ Keys(S) = <<"b", "c", "a">>
    /\ Values(S) = <<2, 1, 2>>

(***************************************************************************)
(* C8.  As claimed: after a successful UnmarshalJSON of a well-formed      *)
(* object Keys() is the sequence of the member names in the order of the   *)
(* text and Values() the member values.                                    *)
(***************************************************************************)
C8_KeysAreMemberNames ==
    (Decoded /\ last.err = "" /\ WellFormedObject(last.data)) =>
        /\ Keys(S) = [i \in 1..Len(AllMembers(last.data)) |-> AllMembers(last.data)[i].key]
        /\ Values(S) = [i \in 1..Len(AllMembers(last.data)) |-> AllMembers(last.data)[i].value]

(***************************************************************************)
(* C8, amended.  After a successful UnmarshalJSON of a well-formed object  *)
(* Keys() is the distinct member names in the order of their first         *)
(* occurrence in the text, and Values() holds for each the value of its    *)
(* last occurrence, whatever the order of the keys and whatever the        *)
(* container held before.                                                  *)
(***************************************************************************)
C8_KeysAreDistinctMemberNames ==
    (Decoded /\ last.err = "" /\ WellFormedObject(last.data)) =>
        /\ Keys(S) = FirstKeys(AllMembers(last.data))
        /\ Len(Values(S)) = Len(Keys(S))
        /\ \A i \in 1..Len(Keys(S)) : Values(S)[i] = LastValue(AllMembers(last.data), Keys(S)[i])

\* two members, not in the order of their keys, decoded into a container that
\* held something
C8_Witness ==
    /\ last.op = "UnmarshalJSON"
    /\ last.err = ""
    /\ WellFormedObject(last.data)
    /\ Keys(S) = <<"c", "a">>
    /\ om.pool # {}

(***************************************************************************)
(* C9.  A successful UnmarshalJSON discards every entry the container      *)
(* held: after null the container is empty, and after an object every      *)
(* entry is a member of the text, with no key or value of the earlier      *)
(* contents left.                                                          *)
(***************************************************************************)
C9_DiscardsEarlierEntries ==
    [][(last'.op = "UnmarshalJSON" /\ last'.err = "") =>
          /\ (last'.data = <<Null>>) => (OmLen(SNext) = 0 /\ Keys(SNext) = <<>>)
          /\ OmLen(SNext) = Cardinality({k \in KeySet : ContainsKey(SNext, k)})
          /\ \A k \in KeySet :
                ContainsKey(SNext, k) =>
                    /\ \E i \in 1..Len(Keys(SNext)) : Keys(SNext)[i] = k
                    /\ Supplies(last'.data, k, Get(SNext, k).value)
          /\ \A i \in 1..Len(Keys(SNext)) :
                Supplies(last'.data, Keys(SNext)[i], Values(SNext)[i])]_vars

\* an object was decoded into a container that held a key the object has not
C9_Witness ==
    /\ last.op = "UnmarshalJSON"
    /\ last.err = ""
    /\ OmLen(S) = 2
    /\ \E n \in om.pool : ~ContainsKey(S, nodes[n].key)

(***************************************************************************)
(* C10.  Decoding the encoding of a container whose values are containers  *)
(* of this kind succeeds and reconstructs both levels: the outer Keys() in *)
(* order and, for every outer key, an inner container with its Keys() and  *)
(* Values() in the order of the text.                                      *)
(***************************************************************************)
C10_NestedRoundTrip ==
    [][(/\ last.op = "MarshalJSON"
        /\ last'.op = "UnmarshalJSON"
        /\ last'.data = last.data
        /\ om.vt \in {"omInt", "omAny"}) =>
          /\ last'.err = ""
          /\ Keys(SNext) = Keys(S)
          /\ Values(SNext) = Values(S)]_vars

(***************************************************************************)
(* C11.  MarshalJSON writes one member per live entry, in head-to-tail     *)
(* order, with one ':' between key and value, one ',' between successive   *)
(* members and none trailing; an empty container is written as {}.         *)
(***************************************************************************)
\* the text of an object with the int members ks[i] : vs[i], lexeme by lexeme:
\* member i takes the four positions from 4 * i - 2 on, the last of them the
\* separator or the closing delimiter.
ObjectText(ks, vs) ==
    [j \in 1..(IF Len(ks) = 0 THEN 2 ELSE 4 * Len(ks) + 1) |->
        IF j = 1 THEN LB
        ELSE IF Len(ks) = 0 THEN RB
        ELSE LET i == (j + 2) \div 4
                 r == (j + 2) % 4
             IN  IF r = 0 THEN Str(ks[i])
                 ELSE IF r = 1 THEN Colon
                 ELSE IF r = 2 THEN Num(vs[i])
                 ELSE IF i = Len(ks) THEN RB ELSE Comma]

Count(w, t) == Cardinality({j \in 1..Len(w) : w[j].t = t})

C11_MarshalFormat ==
    [][(last'.op = "MarshalJSON" /\ om.isKeyString /\ om.vt = "int") =>
          /\ last'.err = ""
          /\ last'.data = ObjectText(Keys(S), Values(S))
          /\ Count(last'.data, ":") = OmLen(S)
          /\ Count(last'.data, ",") = (IF OmLen(S) = 0 THEN 0 ELSE OmLen(S) - 1)
          /\ last'.data[Len(last'.data) - 1].t # ","
          /\ (IsEmpty(S) => last'.data = <<LB, RB>>)]_vars

\* an encoding of three entries whose order is not the order of the keys
C11_Witness ==
    /\ last.op = "MarshalJSON"
    /\ OmLen(S) = 3
    /\ Keys(S) = <<"c", "a", "b">>
    /\ Len(last.data) = 13

(***************************************************************************)
(* C15.  A successful SortAsc (SortDesc) of a string-keyed container       *)
(* leaves Keys() strictly ascending (descending), with the same keys, the  *)
(* same size, every key mapped to the value it had, and every index entry  *)
(* referring to the node it referred to.                                   *)
(***************************************************************************)
Ascending(ks) == \A i \in 1..(Len(ks) - 1) : Rank(ks[i]) < Rank(ks[i + 1])

Descending(ks) == \A i \in 1..(Len(ks) - 1) : Rank(ks[i]) > Rank(ks[i + 1])

C15_SortOrdersKeys ==
    [][(last'.op \in {"SortAsc", "SortDesc"} /\ om.isKeyString) =>
          /\ last'.err = ""
          /\ (last'.op = "SortAsc" => Ascending(Keys(SNext)))
          /\ (last'.op = "SortDesc" => Descending(Keys(SNext)))
          /\ Range(Keys(SNext)) = Range(Keys(S))
          /\ OmLen(SNext) = OmLen(S)
          /\ Len(Keys(SNext)) = Len(Keys(S))
          /\ \A k \in KeySet : Get(SNext, k) = Get(S, k)
          /\ om'.values = om.values
          /\ \A k \in DOMAIN om.values :
                /\ nodes'[om.values[k]].key = k
                /\ nodes'[om.values[k]].value = nodes[om.values[k]].value]_vars

\* three entries in descending order whose nodes were not allocated in that order
C15_Witness ==
    /\ last.op = "SortDesc"
    /\ last.err = ""
    /\ Keys(S) = <<"c", "b", "a">>
    /\ om.values["a"] > om.values["b"]

(***************************************************************************)
(* C16.  SortAsc followed by SortDesc yields descending key order, and the *)
(* pair SortAsc; SortDesc applied once more leaves the order and the       *)
(* key-to-value mapping as they were after the first pair.                 *)
(***************************************************************************)
C16_SortPairIdempotent ==
    [][(last.op = "SortAsc" /\ last'.op = "SortDesc" /\ om.isKeyString) =>
          LET again == SortDesc(SortAsc(SNext).st)
          IN  /\ last'.err = ""
              /\ Descending(Keys(SNext))
              /\ again.err = ""
              /\ Keys(again.st) = Keys(SNext)
              /\ Values(again.st) = Values(SNext)
              /\ \A k \in KeySet : Get(again.st, k) = Get(SNext, k)]_vars

\* a SortDesc of three entries with both values represented
C16_Witness ==
    /\ last.op = "SortDesc"
    /\ OmLen(S) = 3
    /\ Values(S) = <<1, 2, 1>>

(***************************************************************************)
(* C17.  Reverse makes Keys() and Values() the reversals of what they      *)
(* were, keeps the size and the key-to-value mapping, and a second Reverse *)
(* restores the original Keys() and Values().                              *)
(***************************************************************************)
Reversed(s) == [i \in 1..Len(s) |-> s[Len(s) + 1 - i]]

C17_ReverseInvolution ==
    [][(last'.op = "Reverse") =>
          /\ Keys(SNext) = Reversed(Keys(S))
          /\ Values(SNext) = Reversed(Values(S))
          /\ OmLen(SNext) = OmLen(S)
          /\ \A k \in KeySet : Get(SNext, k) = Get(S, k)
          /\ Keys(Reverse(SNext)) = Keys(S)
          /\ Values(Reverse(SNext)) = Values(S)]_vars

C17_Witness ==
    /\ last.op = "Reverse"
    /\ Keys(S) = <<"b", "c", "a">>
    /\ Values(S) = <<1, 2, 2>>

(***************************************************************************)
(* C18.  Pop(k) of a present key returns (the value stored for k, true)    *)
(* and leaves the container as Delete(k) would; Pop(k) of an absent key    *)
(* returns (zero, false) and leaves the container unchanged.               *)
(***************************************************************************)
C18_PopIsGetThenDelete ==
    [][(last'.op = "Pop") =>
          IF ContainsKey(S, last'.key)
          THEN /\ last'.ret = Get(S, last'.key).value
               /\ last'.found
               /\ SNext = Delete(S, last'.key)
               /\ Keys(SNext) = RemoveAt(Keys(S), IndexOf(S, last'.key) + 1)
               /\ Values(SNext) = RemoveAt(Values(S), IndexOf(S, last'.key) + 1)
               /\ Get(SNext, last'.key).err = errKeyNotFound
               /\ OmLen(SNext) = OmLen(S) - 1
          ELSE /\ last'.ret = Zero(om.vt)
               /\ ~last'.found
               /\ SNext = S]_vars

\* an interior entry with a non-zero value has been popped
C18_Witness ==
    /\ last.op = "Pop"
    /\ last.found
    /\ last.ret = 2
    /\ last.idx = 1
    /\ OmLen(S) = 2

(***************************************************************************)
(* C19.  For an absent key Get returns the key-not-found error,            *)
(* GetOrDefault the zero value, and Delete does nothing: the struct (with  *)
(* its index and its pool) and the nodes are as they were.                 *)
(***************************************************************************)
C19_AbsentKeyNoEffect ==
    [][(last'.op \in {"Get", "GetOrDefault", "Delete"} /\ ~ContainsKey(S, last'.key)) =>
          /\ (last'.op = "Get" => last'.err = errKeyNotFound /\ last'.ret = Zero(om.vt))
          /\ (last'.op = "GetOrDefault" => last'.ret = Zero(om.vt))
          /\ om' = om
          /\ nodes' = nodes
          /\ Keys(SNext) = Keys(S)
          /\ Values(SNext) = Values(S)
          /\ OmLen(SNext) = OmLen(S)]_vars

\* a Delete of a key that an earlier call removed, from a container with entries
C19_Witness ==
    /\ last.op = "Delete"
    /\ ~last.found
    /\ OmLen(S) = 2
    /\ om.pool # {}

(***************************************************************************)
(* A container whose key type is int: New[int, int]().  Its keys are       *)
(* numbers; the calls that take a key record in `last` only their value    *)
(* and the position the key had.                                           *)
(***************************************************************************)
IntKeys == {11, 12, 13}

\* the texts handed to UnmarshalJSON
Texts ==
    {<<Null>>, Encode(<<>>), Encode(<<[k |-> "a", v |-> 1]>>), <<LK, RK>>,
     <<LB, Str("c"), Colon, Num(2), Comma, Str("a")>>}

InitIntKey ==
    /\ om = New("int", "int")
    /\ nodes = <<>>
    /\ last = NoCall
    /\ hist = <<>>
    /\ sm1 = NewOrderedMap
    /\ sm2 = NewOrderedMap
    /\ other = NewOther

CallSetIntKey ==
    \E key \in IntKeys, value \in ValSet, n \in Node :
        /\ IF ContainsKey(S, key) THEN n = 1 ELSE n \in Avail(S)
        /\ LET s1 == Set(S, key, value, First(n))
           IN  /\ om' = s1.om
               /\ nodes' = s1.nodes
        /\ last' = Call("Set", "", value, IndexOf(S, key), 0, ContainsKey(S, key), "", <<>>)
        /\ UNCHANGED <<hist, sm1, sm2, other>>

CallDeleteIntKey ==
    \E key \in IntKeys :
        /\ LET s1 == Delete(S, key)
           IN  /\ om' = s1.om
               /\ nodes' = s1.nodes
        /\ last' = Call("Delete", "", 0, IndexOf(S, key), 0, ContainsKey(S, key), "", <<>>)
        /\ UNCHANGED <<hist, sm1, sm2, other>>

CallUnmarshalText ==
    \E data \in Texts, ord \in Orders :
        /\ LET r == UnmarshalJSON(S, data, ord)
           IN  /\ om' = r.st.om
               /\ nodes' = r.st.nodes
               /\ last' = Call("UnmarshalJSON", "", 0, -1, 0, FALSE, r.err, data)
        /\ UNCHANGED <<hist, sm1, sm2, other>>

NextIntKey ==
    \/ CallSetIntKey
    \/ CallDeleteIntKey
    \/ CallReverse
    \/ CallSortAsc
    \/ CallSortDesc
    \/ CallMarshalJSON
    \/ CallUnmarshalText

SpecIntKey == InitIntKey /\ [][NextIntKey]_vars

(***************************************************************************)
(* C12.  On a container whose key type is not string, SortAsc, SortDesc,   *)
(* MarshalJSON and UnmarshalJSON each return the key-type error and leave  *)
(* the keys, the values, their order and the size as they were.            *)
(***************************************************************************)
C12_NonStringKeyRejected ==
    [][(/\ last'.op \in {"SortAsc", "SortDesc", "MarshalJSON", "UnmarshalJSON"}
        /\ ~om.isKeyString) =>
          /\ last'.err = errKeyMustBeStringForJson
          /\ om' = om
          /\ nodes' = nodes
          /\ Keys(SNext) = Keys(S)
          /\ Values(SNext) = Values(S)
          /\ OmLen(SNext) = OmLen(S)]_vars

\* a populated int-keyed container has refused to decode an object
C12_Witness ==
    /\ ~om.isKeyString
    /\ last.op = "UnmarshalJSON"
    /\ last.err = errKeyMustBeStringForJson
    /\ last.data = Encode(<<[k |-> "a", v |-> 1]>>)
    /\ OmLen(S) = 2
    /\ Keys(S) = <<13, 11>>

(***************************************************************************)
(* Clone and Merge: two containers.  om and nodes are the receiver,        *)
(* `other` the second container.                                           *)
(***************************************************************************)
RECURSIVE CloneLoop(_, _, _)
CloneLoop(st, es, i) ==
    IF i > Len(es) THEN st
    ELSE CloneLoop(Set(st, es[i].k, es[i].v, Identity), es, i + 1)

\* a clone that is the source's struct over the source's nodes
Clone_Shallow(st) == [om |-> st.om, nodes |-> <<>>, heap |-> "source"]

\* Clone: a new container, with a new pool, and a Set for every entry from the head
Clone(st) ==
    LET kt == IF st.om.isKeyString THEN "string" ELSE "int"
        c  == CloneLoop([om |-> NewWithCapacity(kt, st.om.vt), nodes |-> <<>>],
                        Entries(st), 1)
    IN  [om |-> c.om, nodes |-> c.nodes, heap |-> "own"]

RECURSIVE MergeLoop(_, _, _, _)
MergeLoop(st, es, i, ord) ==
    IF i > Len(es) THEN st
    ELSE MergeLoop(Set(st, es[i].k, es[i].v, ord), es, i + 1, ord)

\* Merge that leaves the value of a key the receiver already has
RECURSIVE MergeLoop_KeepExisting(_, _, _, _)
MergeLoop_KeepExisting(st, es, i, ord) ==
    IF i > Len(es) THEN st
    ELSE MergeLoop_KeepExisting(IF ContainsKey(st, es[i].k) THEN st
                                ELSE Set(st, es[i].k, es[i].v, ord),
                                es, i + 1, ord)

Merge_KeepExisting(st, src, ord) == MergeLoop_KeepExisting(st, Entries(src), 1, ord)

\* Merge: a Set on the receiver for every entry of the other container from its head
Merge(st, src, ord) == MergeLoop(st, Entries(src), 1, ord)

\* the second container as a store
OtherStore == [om |-> other.om, nodes |-> IF other.heap = "own" THEN other.nodes ELSE nodes]

OtherStoreNext ==
    [om |-> other'.om, nodes |-> IF other'.heap = "own" THEN other'.nodes ELSE nodes']

\* the keys of the two-container model
PairKeys == {KeySeq[1], KeySeq[2]}

\* the methods that change a container, and the store each leaves
Mutators == {"Set", "Delete", "Pop", "Clear", "Reverse", "SortAsc", "SortDesc"}

Apply(st, op, key, value, ord) ==
    CASE op = "Set" -> Set(st, key, value, ord)
      [] op = "Delete" -> Delete(st, key)
      [] op = "Pop" -> Pop(st, key).st
      [] op = "Clear" -> Clear(st)
      [] op = "Reverse" -> Reverse(st)
      [] op = "SortAsc" -> SortAsc(st).st
      [] op = "SortDesc" -> SortDesc(st).st

InitPair ==
    /\ om = New("string", "int")
    /\ nodes = <<>>
    /\ last = NoCall
    /\ hist = <<>>
    /\ sm1 = NewOrderedMap
    /\ sm2 = NewOrderedMap
    /\ other = NewOther

\* the arguments a method takes: a key for Set, Delete and Pop, a value for Set
KeyArgs(op) == IF op \in {"Set", "Delete", "Pop"} THEN PairKeys ELSE {""}

ValueArgs(op) == IF op = "Set" THEN ValSet ELSE {0}

\* The pool behaviour of the calls that build the two containers: a pooled
\* node if there is one, the one with the lowest address, and a new node
\* otherwise.  (Merge is taken under every behaviour of the pool.)
PooledFirst(st) ==
    IF Avail(st) = {} THEN Identity
    ELSE First(CHOOSE n \in Avail(st) : \A x \in Avail(st) : n <= x)

\* a method of the first container
CallOnSource(op) ==
    \E key \in KeyArgs(op), value \in ValueArgs(op) :
        /\ LET s1 == Apply(S, op, key, value, PooledFirst(S))
           IN  /\ om' = s1.om
               /\ nodes' = s1.nodes
        /\ last' = Call("source", "", 0, -1, 0, FALSE, "", <<>>)
        /\ UNCHANGED <<hist, sm1, sm2, other>>

\* a method of the second container
CallOnOther(op) ==
    \E key \in KeyArgs(op), value \in ValueArgs(op) :
        /\ LET s1 == Apply(OtherStore, op, key, value, PooledFirst(OtherStore))
           IN  /\ other' = [om |-> s1.om,
                            nodes |-> IF other.heap = "own" THEN s1.nodes ELSE <<>>,
                            heap |-> other.heap]
               /\ nodes' = IF other.heap = "own" THEN nodes ELSE s1.nodes
        /\ last' = Call("other", "", 0, -1, 0, FALSE, "", <<>>)
        /\ UNCHANGED <<om, hist, sm1, sm2>>

\* other = om.Clone(); hist notes that the second container is a clone
CallClone ==
    /\ other' = Clone(S)
    /\ hist' = <<"Clone">>
    /\ last' = Call("Clone", "", 0, -1, 0, FALSE, "", <<>>)
    /\ UNCHANGED <<om, nodes, sm1, sm2>>

\* om.Merge(other)
CallMerge ==
    \E ord \in Orders :
        /\ LET s1 == Merge(S, OtherStore, ord)
           IN  /\ om' = s1.om
               /\ nodes' = s1.nodes
        /\ last' = Call("Merge", "", 0, -1, 0, FALSE, "", <<>>)
        /\ UNCHANGED <<hist, sm1, sm2, other>>

NextPair ==
    \/ \E op \in Mutators : CallOnSource(op)
    \/ \E op \in Mutators : CallOnOther(op)
    \/ CallClone
    \/ CallMerge

SpecPair == InitPair /\ [][NextPair]_vars

(***************************************************************************)
(* C13.  c := m.Clone() has the Keys() and Values() of m in the same       *)
(* order; afterwards no Set, Delete, Pop, Clear, Reverse or sort of m      *)
(* changes c.Keys() or c.Values(), and none of c changes those of m.       *)
(***************************************************************************)
C13_CloneIsIndependent ==
    [][/\ (last'.op = "Clone" =>
              /\ Keys(OtherStoreNext) = Keys(S)
              /\ Values(OtherStoreNext) = Values(S)
              /\ OmLen(OtherStoreNext) = OmLen(S)
              /\ Keys(SNext) = Keys(S)
              /\ Values(SNext) = Values(S))
       /\ (last'.op = "source" =>
              /\ Keys(OtherStoreNext) = Keys(OtherStore)
              /\ Values(OtherStoreNext) = Values(OtherStore)
              /\ OmLen(OtherStoreNext) = OmLen(OtherStore))
       /\ (last'.op = "other" =>
              /\ Keys(SNext) = Keys(S)
              /\ Values(SNext) = Values(S)
              /\ OmLen(SNext) = OmLen(S))]_vars

\* the source of a clone has since lost a key and had a value set
C13_Witness ==
    /\ hist = <<"Clone">>
    /\ last.op = "source"
    /\ Keys(S) = <<"b">>
    /\ Values(S) = <<2>>
    /\ Keys(OtherStore) = <<"a", "b">>
    /\ Values(OtherStore) = <<1, 1>>

(***************************************************************************)
(* C14.  After m1.Merge(m2), m1.Keys() is what it was followed by the keys *)
(* of m2 that m1 did not have, in m2's order; every key of m2 has m2's     *)
(* value in m1; the keys only m1 had keep their value; m2 is unchanged.    *)
(***************************************************************************)
C14_MergeAppendsNewKeys ==
    [][(last'.op = "Merge") =>
          LET k1 == Keys(S)
              k2 == Keys(OtherStore)
              IsNew(k) == k \notin Range(k1)
          IN  /\ Keys(SNext) = k1 \o SelectSeq(k2, IsNew)
              /\ OmLen(SNext) = Len(k1) + Len(SelectSeq(k2, IsNew))
              /\ \A k \in Range(k2) : Get(SNext, k) = Get(OtherStore, k)
              /\ \A k \in Range(k1) \ Range(k2) : Get(SNext, k) = Get(S, k)
              /\ Keys(OtherStoreNext) = k2
              /\ Values(OtherStoreNext) = Values(OtherStore)
              /\ other' = other]_vars

\* a merge that updated a key the receiver had and appended one it had not
C14_Witness ==
    /\ last.op = "Merge"
    /\ Keys(OtherStore) = <<"a", "b">>
    /\ Values(OtherStore) = <<1, 2>>
    /\ Keys(S) = <<"b", "a">>
    /\ Values(S) = <<2, 1>>

(***************************************************************************)
(* m.Merge(m): the container that is read is the one that is written, so   *)
(* the loop follows the links the Set calls leave.  done is whether the    *)
(* loop reached nil within the steps it is given.                          *)
(***************************************************************************)
RECURSIVE MergeSelfLoop(_, _, _, _)
MergeSelfLoop(st, n, ord, fuel) ==
    IF n = Nil THEN [st |-> st, done |-> TRUE]
    ELSE IF fuel = 0 THEN [st |-> st, done |-> FALSE]
    ELSE LET s1 == Set(st, st.nodes[n].key, st.nodes[n].value, ord)
         IN  MergeSelfLoop(s1, s1.nodes[n].next, ord, fuel - 1)

MergeSelf(st, ord) == MergeSelfLoop(st, st.om.head, ord, 2 * MaxNodes)

CallMergeSelf ==
    \E ord \in Orders :
        /\ LET r == MergeSelf(S, ord)
           IN  /\ om' = r.st.om
               /\ nodes' = r.st.nodes
               /\ last' = Call("MergeSelf", "", 0, -1, 0, r.done, "", <<>>)
        /\ UNCHANGED <<hist, sm1, sm2, other>>

\* m = m.Clone(): the calls that follow act on the container Clone returned
CallCloneReplace ==
    /\ LET c == Clone(S)
       IN  /\ om' = c.om
           /\ nodes' = c.nodes
    /\ last' = Call("Clone", "", 0, -1, 0, FALSE, "", <<>>)
    /\ UNCHANGED <<hist, sm1, sm2, other>>

(***************************************************************************)
(* Every method that changes the string-keyed container, Merge and the     *)
(* decoding of any of the texts included.  The container that is merged in *)
(* is one that Set and Delete calls have built.                            *)
(***************************************************************************)
SourceCalls ==
    {<<SetCall("c", 2), SetCall("a", 1)>>,
     <<SetCall("b", 1), SetCall("c", 2), SetCall("a", 2), DeleteCall("c")>>}

InitAll ==
    /\ om = New("string", "int")
    /\ nodes = <<>>
    /\ last = NoCall
    /\ hist = <<>>
    /\ sm1 = NewOrderedMap
    /\ sm2 = NewOrderedMap
    /\ \E calls \in SourceCalls :
          LET st == Run([om |-> New("string", "int"), nodes |-> <<>>], calls, 1)
          IN  other = [om |-> st.om, nodes |-> st.nodes, heap |-> "own"]

NextAll ==
    \/ CallSet
    \/ CallDelete
    \/ CallPop
    \/ CallClear
    \/ CallReverse
    \/ CallSortAsc
    \/ CallSortDesc
    \/ CallMerge
    \/ CallMergeSelf
    \/ CallCloneReplace
    \/ CallUnmarshalText

SpecAll == InitAll /\ [][NextAll]_vars

(***************************************************************************)
(* C20.  In every reachable state ForEach visits each live entry once, in  *)
(* Keys() order, and ForEachReverse visits the same pairs in the reverse   *)
(* order: the prev links mirror the next links.                            *)
(***************************************************************************)
C20_TraversalsMirror ==
    LET c == Chain(S)
    IN  /\ ForEach(S) = [i \in 1..OmLen(S) |-> <<Keys(S)[i], Values(S)[i]>>]
        /\ ForEachReverse(S) = Reversed(ForEach(S))
        /\ Len(ForEach(S)) = Cardinality(DOMAIN om.values)
        /\ {ForEach(S)[i][1] : i \in 1..Len(ForEach(S))} = DOMAIN om.values
        /\ \A i \in 1..Len(c) :
              /\ nodes[c[i]].prev = (IF i = 1 THEN Nil ELSE c[i - 1])
              /\ nodes[c[i]].next = (IF i = Len(c) THEN Nil ELSE c[i + 1])
        /\ om.head = (IF c = <<>> THEN Nil ELSE c[1])
        /\ om.tail = (IF c = <<>> THEN Nil ELSE c[Len(c)])

\* three entries after a merge that appended a key behind two the receiver had
C20_Witness ==
    /\ last.op = "Merge"
    /\ ForEach(S) = <<<<"b", 1>>, <<"c", 2>>, <<"a", 1>>>>
    /\ ForEachReverse(S) = <<<<"a", 1>>, <<"c", 2>>, <<"b", 1>>>>

(***************************************************************************)
(* C21.  After every operation the size counter equals the number of       *)
(* entries of the index and the number of nodes reachable from the head by *)
(* next links.                                                             *)
(***************************************************************************)
C21_SizeAgrees ==
    /\ om.size = Cardinality(DOMAIN om.values)
    /\ om.size = Len(Chain(S))
    /\ OmLen(S) = Len(ForEach(S))

\* a decode that failed after its first member left one entry
C21_Witness ==
    /\ last.op = "UnmarshalJSON"
    /\ last.err # ""
    /\ om.size = 1
    /\ Keys(S) = <<"c">>

(***************************************************************************)
(* C22.  After every operation head and tail are nil exactly when the size *)
(* is 0; otherwise both are nodes, head.prev is nil and tail.next is nil.  *)
(***************************************************************************)
C22_HeadTailEnds ==
    /\ (om.size = 0) <=> (om.head = Nil)
    /\ (om.size = 0) <=> (om.tail = Nil)
    /\ om.size # 0 =>
          /\ om.head \in DOMAIN nodes
          /\ om.tail \in DOMAIN nodes
          /\ nodes[om.head].prev = Nil
          /\ nodes[om.tail].next = Nil

\* two entries after a descending sort put the node that was the tail first
C22_Witness ==
    /\ last.op = "SortDesc"
    /\ om.size = 2
    /\ Keys(S) = <<"c", "a">>
    /\ om.head > om.tail

(***************************************************************************)
(* C23.  After every operation the chain from the head is acyclic, every   *)
(* node on it is the node the index holds for the node's key, and every    *)
(* index entry is a node on the chain; so ContainsKey(k) iff k is in       *)
(* Keys() iff IndexOf(k) >= 0, and no key is in Keys() twice.              *)
(***************************************************************************)
C23_IndexMatchesChain ==
    LET c == Chain(S)
    IN  /\ Len(c) <= MaxNodes
        /\ \A i, j \in 1..Len(c) : c[i] = c[j] => i = j
        /\ \A i \in 1..Len(c) :
              /\ nodes[c[i]].key \in DOMAIN om.values
              /\ om.values[nodes[c[i]].key] = c[i]
        /\ Range(om.values) \subseteq Range(c)
        /\ \A k \in KeySet :
              /\ ContainsKey(S, k) <=> (k \in Range(Keys(S)))
              /\ ContainsKey(S, k) <=> (IndexOf(S, k) >= 0)
        /\ \A i, j \in 1..Len(Keys(S)) : Keys(S)[i] = Keys(S)[j] => i = j

\* a Pop took the first of three entries
C23_Witness ==
    /\ last.op = "Pop"
    /\ last.found
    /\ last.idx = 0
    /\ om.size = 2
    /\ ~ContainsKey(S, last.key)
    /\ IndexOf(S, last.key) = -1

(***************************************************************************)
(* C24.  A node that Delete, Pop or Clear retired is in the pool with both *)
(* links nil, and neither head, tail, the index nor a link of a live node  *)
(* refers to it; the node a Set of a new key takes is once in the chain,   *)
(* at the tail, with the new key and value, and the entries that were      *)
(* there are as they were.                                                 *)
(***************************************************************************)
PoolIsDetached(st) ==
    \A n \in st.om.pool :
        /\ st.nodes[n].prev = Nil
        /\ st.nodes[n].next = Nil
        /\ n # st.om.head
        /\ n # st.om.tail
        /\ n \notin Range(st.om.values)
        /\ n \notin Range(Chain(st))
        /\ \A x \in Range(Chain(st)) : st.nodes[x].prev # n /\ st.nodes[x].next # n

C24_RetiredNodesDetached ==
    [][/\ PoolIsDetached(SNext)
       /\ (last'.op \in {"Delete", "Pop"} /\ ContainsKey(S, last'.key)) =>
              om'.pool = om.pool \cup {om.values[last'.key]}
       /\ (last'.op = "Clear") => om'.pool = om.pool \cup Range(Chain(S))
       /\ (last'.op = "Set" /\ ~ContainsKey(S, last'.key)) =>
              /\ Chain(SNext) = Chain(S) \o <<om'.tail>>
              /\ om'.tail \notin Range(Chain(S))
              /\ om'.tail \notin om'.pool
              /\ nodes'[om'.tail].key = last'.key
              /\ nodes'[om'.tail].value = last'.value
              /\ Keys(SNext) = Keys(S) \o <<last'.key>>
              /\ Values(SNext) = Values(S) \o <<last'.value>>]_vars

\* the node allocated first, retired since, is the tail of three entries under
\* another key than the one it was allocated for
C24_Witness ==
    /\ last.op = "Set"
    /\ ~last.found
    /\ om.size = 3
    /\ om.tail = 1
    /\ om.head = 2
    /\ Keys(S) = <<"b", "c", "a">>
    /\ om.pool = {}

(***************************************************************************)
(* C25.  m.Merge(m) terminates and leaves Keys(), Values(), Len(), the     *)
(* index and the links of m unchanged, in every reachable state of m.      *)
(***************************************************************************)
C25_SelfMergeNoEffect ==
    [][(last'.op = "MergeSelf") =>
          /\ last'.found
          /\ Keys(SNext) = Keys(S)
          /\ Values(SNext) = Values(S)
          /\ OmLen(SNext) = OmLen(S)
          /\ om' = om
          /\ nodes' = nodes]_vars

C25_Witness ==
    /\ last.op = "MergeSelf"
    /\ last.found
    /\ Keys(S) = <<"c", "a", "b">>
    /\ Values(S) = <<2, 1, 2>>

====
